---- MODULE Spec2Model ----
(***************************************************************************)
(* Bug aggregation and majority voting of claude-code-bughunter.           *)
(*                                                                         *)
(* Modelled from src/src/types.ts (similarity keys) and                    *)
(* src/src/analyzer.ts (Analyzer.applyMajorityVoting, analyzeDiff and the  *)
(* passes it runs, createRandomizedDiffVariants, combinePassResults and    *)
(* buildAnalysisMeta).  The cross-source merge has no code in src/ and is  *)
(* modelled from section 4.3 of spec.md.                                   *)
(*                                                                         *)
(* JavaScript strings are sequences of one-character strings, so that the  *)
(* normalisation (toLowerCase, trim, substring) and the key template       *)
(* `${file}:${bucket}:${titlePrefix}` are computed as the code computes    *)
(* them.  An optional line number (number | null) is <<>> for null and     *)
(* <<n>> for the number n.                                                 *)
(***************************************************************************)
EXTENDS Integers, Sequences, FiniteSets, TLC

----------------------------------------------------------------------------
(* Bounds of the model *)

\* largest start line drawn for the key generator
MaxLine == 11

\* number of analysis passes of one aggregation call
NumPasses == 3

\* largest number of reports in the outputs of all passes of one call
MaxReports == 4

----------------------------------------------------------------------------
(* Program constants: src/src/types.ts *)

LINE_BUCKET_SIZE == 5

TITLE_SIMILARITY_LENGTH == 50

----------------------------------------------------------------------------
(* JavaScript string primitives *)

Min(a, b) == IF a < b THEN a ELSE b

\* String.prototype.toLowerCase on one UTF-16 unit (the letters the model uses)
ToLowerChar(c) ==
  CASE c = "A" -> "a" [] c = "D" -> "d" [] c = "E" -> "e" [] c = "F" -> "f"
    [] c = "K" -> "k" [] c = "L" -> "l" [] c = "N" -> "n" [] c = "R" -> "r"
    [] c = "S" -> "s" [] c = "T" -> "t" [] c = "U" -> "u" [] c = "X" -> "x"
    [] OTHER -> c

ToLowerCase(s) == [i \in 1..Len(s) |-> ToLowerChar(s[i])]

IsWhiteSpace(c) == c \in {" ", "\t", "\n"}

\* String.prototype.trim: drops the white space at both ends
Trim(s) ==
  LET keep == {i \in 1..Len(s) : ~IsWhiteSpace(s[i])}
  IN  IF keep = {} THEN <<>>
      ELSE LET first == CHOOSE i \in keep : \A j \in keep : i <= j
               last  == CHOOSE i \in keep : \A j \in keep : j <= i
           IN  SubSeq(s, first, last)

\* s.substring(0, n)
Substring0(s, n) == SubSeq(s, 1, Min(n, Len(s)))

DigitChar(d) ==
  CASE d = 0 -> "0" [] d = 1 -> "1" [] d = 2 -> "2" [] d = 3 -> "3"
    [] d = 4 -> "4" [] d = 5 -> "5" [] d = 6 -> "6" [] d = 7 -> "7"
    [] d = 8 -> "8" [] d = 9 -> "9"

RECURSIVE NumberToString(_)
\* the decimal rendering of a non-negative integer inside a template string
NumberToString(n) ==
  IF n < 10 THEN <<DigitChar(n)>>
  ELSE NumberToString(n \div 10) \o <<DigitChar(n % 10)>>

\* the rendering of null inside a template string
NullString == <<"n", "u", "l", "l">>

\* `${file}:${bucket}:${titlePrefix}`
KeyTemplate(file, bucket, titlePrefix) ==
  file \o <<":">> \o bucket \o <<":">> \o titlePrefix

----------------------------------------------------------------------------
(* Similarity keys: src/src/types.ts *)

\* number | null
NoLine == <<>>

HasLine(bug) == bug.startLine # NoLine

LineOf(bug) == bug.startLine[1]

NormalizedTitle(bug) == Trim(ToLowerCase(bug.title))

NormalizedFile(bug) == Trim(ToLowerCase(bug.filePath))

TitlePrefix(bug) == Substring0(NormalizedTitle(bug), TITLE_SIMILARITY_LENGTH)

PrimaryBucket(line) == line \div LINE_BUCKET_SIZE

\* variant: shifts by a bucket quarter instead of a bucket half
ShiftedBucket_quarter(line) ==
  (line + (LINE_BUCKET_SIZE \div 4)) \div LINE_BUCKET_SIZE

\* variant: rounds the half bucket up instead of down
ShiftedBucket_ceilHalf(line) ==
  (line + ((LINE_BUCKET_SIZE + 1) \div 2)) \div LINE_BUCKET_SIZE

ShiftedBucket(line) ==
  (line + (LINE_BUCKET_SIZE \div 2)) \div LINE_BUCKET_SIZE

\* variant: a falsy startLine is keyed as bucket 0 (`!bug.startLine`)
createBugSimilarityKeys_falsyLine(bug) ==
  IF ~HasLine(bug) \/ (HasLine(bug) /\ LineOf(bug) = 0)
  THEN <<KeyTemplate(NormalizedFile(bug), NumberToString(0), TitlePrefix(bug))>>
  ELSE LET primaryBucket == PrimaryBucket(LineOf(bug))
           shiftedBucket == ShiftedBucket(LineOf(bug))
           primaryKey == KeyTemplate(NormalizedFile(bug),
                                     NumberToString(primaryBucket),
                                     TitlePrefix(bug))
       IN  IF shiftedBucket # primaryBucket
           THEN <<primaryKey,
                  KeyTemplate(NormalizedFile(bug),
                              NumberToString(shiftedBucket),
                              TitlePrefix(bug))>>
           ELSE <<primaryKey>>

\* variant: the null-sentinel key is appended for line-based bugs too
createBugSimilarityKeys_withNull(bug) ==
  LET nullKey == KeyTemplate(NormalizedFile(bug), NullString, TitlePrefix(bug))
  IN  IF ~HasLine(bug)
      THEN <<nullKey>>
      ELSE LET primaryBucket == PrimaryBucket(LineOf(bug))
               shiftedBucket == ShiftedBucket(LineOf(bug))
               primaryKey == KeyTemplate(NormalizedFile(bug),
                                         NumberToString(primaryBucket),
                                         TitlePrefix(bug))
           IN  IF shiftedBucket # primaryBucket
               THEN <<primaryKey,
                      KeyTemplate(NormalizedFile(bug),
                                  NumberToString(shiftedBucket),
                                  TitlePrefix(bug))>>
                    \o <<nullKey>>
               ELSE <<primaryKey, nullKey>>

\* variant: only the primary key is returned
createBugSimilarityKeys_primaryOnly(bug) ==
  IF ~HasLine(bug)
  THEN <<KeyTemplate(NormalizedFile(bug), NullString, TitlePrefix(bug))>>
  ELSE <<KeyTemplate(NormalizedFile(bug),
                     NumberToString(PrimaryBucket(LineOf(bug))),
                     TitlePrefix(bug))>>

createBugSimilarityKeys(bug) ==
  IF ~HasLine(bug)
  THEN <<KeyTemplate(NormalizedFile(bug), NullString, TitlePrefix(bug))>>
  ELSE LET primaryBucket == PrimaryBucket(LineOf(bug))
           shiftedBucket == ShiftedBucket(LineOf(bug))
           primaryKey == KeyTemplate(NormalizedFile(bug),
                                     NumberToString(primaryBucket),
                                     TitlePrefix(bug))
       IN  IF shiftedBucket # primaryBucket
           THEN <<primaryKey,
                  KeyTemplate(NormalizedFile(bug),
                              NumberToString(shiftedBucket),
                              TitlePrefix(bug))>>
           ELSE <<primaryKey>>

createNullSentinelKey(bug) ==
  KeyTemplate(NormalizedFile(bug), NullString, TitlePrefix(bug))

----------------------------------------------------------------------------
(* State *)

VARIABLES
  \* key generator calls: the two argument bugs and the values returned
  argA, argB, keysA, keysB, nullKeyA, nullKeyB,
  \* Analyzer.applyMajorityVoting
  pc,                 \* "idle", "start", "loop", "done" or "threw"
  passError,          \* passResults[i].error is set, by pass index
  voteThreshold,
  successfulResults,  \* pass indices of passResults.filter((r) => !r.error)
  resultPos,          \* position of the outer loop in successfulResults
  bugPos,             \* reports of the current pass already iterated
  reportCount,        \* reports of all passes already iterated
  bugVotes,           \* Map<string, BugWithVotes>, in insertion order
  keyAlias,           \* Map<string, string>
  votedBugs,          \* the returned list
  \* history of the call: which cluster each iterated report voted in
  voteLog,
  \* Analyzer.analyzeDiff
  apc,                \* "idle", "awaiting", "voting", "returned" or "threw"
  passResults,        \* by pass index: the promise of runSingleAnalysisPass
  outOfOrder,         \* a pass settled while a pass of lower index was running
  \* the result of combinePassResults and the calls of buildAnalysisMeta on it
  metaBugs,           \* the voted bug list
  firstSummary,       \* summary of the first successful pass
  result,             \* the AnalysisResult, or NotCalled
  metaReturned,       \* what the calls of buildAnalysisMeta returned, in order
  \* the cross-source merge (spec.md section 4.3)
  mergeA, mergeB,     \* the arguments of the current call
  mergeCall,          \* 1: merge(A, B); 2: merge(merge(A, B), B)
  mpc,                \* "idle", "seed", "scan" or "returned"
  mergePos,           \* reports of B already tested
  mergeOut,           \* the output list
  memberKeys,         \* the key-membership set
  nullOriginKeys,     \* the null-origin set
  firstMerged,        \* what the first call returned, or NotCalled
  \* Analyzer.createRandomizedDiffVariants
  diff,               \* the argument, as diff.split("\n")
  numVariants,
  variants            \* the returned array, each variant as its lines

keyVars == <<argA, argB, keysA, keysB, nullKeyA, nullKeyB>>

voteVars == <<pc, passError, voteThreshold, successfulResults, resultPos,
              bugPos, reportCount, bugVotes, keyAlias, votedBugs, voteLog>>

analyzeVars == <<apc, passResults, outOfOrder>>

metaVars == <<metaBugs, firstSummary, result, metaReturned>>

mergeVars == <<mergeA, mergeB, mergeCall, mpc, mergePos, mergeOut,
               memberKeys, nullOriginKeys, firstMerged>>

diffVars == <<diff, numVariants, variants>>

vars == <<mergeA, mergeB, mergeCall, mpc, mergePos, mergeOut,
          memberKeys, nullOriginKeys, firstMerged,
          diff, numVariants, variants,
          metaBugs, firstSummary, result, metaReturned,
          apc, passResults, outOfOrder,
          argA, argB, keysA, keysB, nullKeyA, nullKeyB,
          pc, passError, voteThreshold, successfulResults, resultPos,
          bugPos, reportCount, bugVotes, keyAlias, votedBugs, voteLog>>

PassIndices == 0..(NumPasses - 1)

----------------------------------------------------------------------------
(* Inputs *)

T_NullDeref == <<"N","u","l","l"," ","d","e","r","e","f">>

T_nullderefPadded == <<" ","n","u","l","l"," ","D","E","R","E","F"," ">>

T_Leak == <<"L","e","a","k">>

RECURSIVE Repeat(_, _)
Repeat(c, n) == IF n = 0 THEN <<>> ELSE <<c>> \o Repeat(c, n - 1)

\* two titles longer than the fingerprint that differ only after it
T_LongA == Repeat("x", TITLE_SIMILARITY_LENGTH) \o <<"a">>

T_LongB == Repeat("x", TITLE_SIMILARITY_LENGTH) \o <<"b">>

F_a == <<"a",".","t","s">>

F_A_padded == <<" ","A",".","T","S">>

F_b == <<"b",".","t","s">>

Bug(id, title, severity, filePath, startLine, endLine) ==
  [id |-> id, title |-> title, severity |-> severity,
   description |-> "d", filePath |-> filePath,
   startLine |-> startLine, endLine |-> endLine]

KeyTitles == {T_NullDeref, T_nullderefPadded, T_Leak, T_LongA, T_LongB}

KeyFiles == {F_a, F_A_padded, F_b}

KeyLines == {NoLine} \cup {<<n>> : n \in 0..MaxLine}

KeyBugs ==
  {Bug("k", t, "high", f, l, NoLine) : t \in KeyTitles, f \in KeyFiles, l \in KeyLines}

\* the second bug of a pair
KeyBugsB ==
  {Bug("k", t, "high", f, l, NoLine) :
     t \in {T_NullDeref, T_LongB}, f \in {F_a, F_b}, l \in KeyLines}

----------------------------------------------------------------------------
(* Key generator calls *)

NotCalled == <<>>

\* no result has been combined
MetaIdle ==
  /\ metaBugs = <<>> /\ firstSummary = <<>>
  /\ result = NotCalled /\ metaReturned = <<>>

\* no merge has been called
MergeIdle ==
  /\ mergeA = <<>> /\ mergeB = <<>> /\ mergeCall = 0 /\ mpc = "idle"
  /\ mergePos = 0 /\ mergeOut = <<>>
  /\ memberKeys = {} /\ nullOriginKeys = {} /\ firstMerged = NotCalled

\* no diff variants have been asked for
DiffIdle ==
  /\ diff = <<>> /\ numVariants = 0 /\ variants = NotCalled

InitKeys ==
  /\ argA \in KeyBugs
  /\ argB \in KeyBugsB
  /\ keysA = NotCalled /\ keysB = NotCalled
  /\ nullKeyA = NotCalled /\ nullKeyB = NotCalled
  /\ pc = "idle"
  /\ apc = "idle" /\ passResults = <<>> /\ outOfOrder = FALSE
  /\ MetaIdle /\ MergeIdle /\ DiffIdle
  /\ passError = <<>> /\ voteThreshold = 1 /\ successfulResults = <<>>
  /\ resultPos = 0 /\ bugPos = 0 /\ reportCount = 0
  /\ bugVotes = <<>> /\ keyAlias = <<>>
  /\ votedBugs = <<>> /\ voteLog = {}

CallSimilarityKeys ==
  /\ pc = "idle"
  /\ keysA = NotCalled
  /\ keysA' = createBugSimilarityKeys(argA)
  /\ keysB' = createBugSimilarityKeys(argB)
  /\ UNCHANGED <<argA, argB, nullKeyA, nullKeyB>>
  /\ UNCHANGED voteVars
  /\ UNCHANGED analyzeVars
  /\ UNCHANGED <<metaVars, mergeVars, diffVars>>

CallNullSentinelKey ==
  /\ pc = "idle"
  /\ nullKeyA = NotCalled
  /\ nullKeyA' = createNullSentinelKey(argA)
  /\ nullKeyB' = createNullSentinelKey(argB)
  /\ UNCHANGED <<argA, argB, keysA, keysB>>
  /\ UNCHANGED voteVars
  /\ UNCHANGED analyzeVars
  /\ UNCHANGED <<metaVars, mergeVars, diffVars>>

NextKeys == CallSimilarityKeys \/ CallNullSentinelKey

SpecKeys == InitKeys /\ [][NextKeys]_vars

----------------------------------------------------------------------------
(* Analyzer.applyMajorityVoting: src/src/analyzer.ts *)

\* `undefined` for a canonical key not found
NoKey == <<>>

Range(s) == {s[i] : i \in 1..Len(s)}

\* raw report tuple of a pass output (ClaudeAnalysisOutput.bugs[i])
Report(title, severity, filePath, startLine, endLine) ==
  [title |-> title, severity |-> severity, description |-> "d",
   filePath |-> filePath, startLine |-> startLine, endLine |-> endLine]

\* the reports a pass can return in an aggregation call
VoteReports ==
  { Report(T_NullDeref, "high", F_a, <<9>>, <<9>>),
    Report(T_nullderefPadded, "medium", F_A_padded, <<10>>, <<12>>),
    Report(T_NullDeref, "critical", F_a, NoLine, NoLine),
    Report(T_Leak, "low", F_a, <<9>>, <<10>>) }

\* lines 388-396: the Bug built from a raw report; randomUUID() is fresh, the
\* model takes the position of the report in the call as the identifier
NewBug(bugData, passIndex, pos) ==
  [id |-> <<passIndex, pos>>, title |-> bugData.title,
   severity |-> bugData.severity, description |-> bugData.description,
   filePath |-> bugData.filePath, startLine |-> bugData.startLine,
   endLine |-> bugData.endLine]

\* variant: failed passes are not filtered out
SuccessfulFrom_all(errors, i) == [k \in 1..(NumPasses - i) |-> i + k - 1]

\* variant: the successful passes are taken from the last to the first
SuccessfulFrom_reversed(errors, i) ==
  LET ok == {j \in i..(NumPasses - 1) : ~errors[j]}
  IN  [k \in 1..Cardinality(ok) |->
         CHOOSE j \in ok : Cardinality({m \in ok : m > j}) = k - 1]

\* passResults.filter((r) => !r.error), as pass indices in order
RECURSIVE SuccessfulFrom(_, _)
SuccessfulFrom(errors, i) ==
  IF i >= NumPasses THEN <<>>
  ELSE (IF errors[i] THEN <<>> ELSE <<i>>) \o SuccessfulFrom(errors, i + 1)

\* bugVotes.has(key)
HasEntry(votes, key) == \E i \in 1..Len(votes) : votes[i].key = key

EntryIndex(votes, key) == CHOOSE i \in 1..Len(votes) : votes[i].key = key

\* bugVotes.get(key), for a key that is present
GetEntry(votes, key) == votes[EntryIndex(votes, key)]

\* variant: the alias of the last candidate key that has one
FirstAlias_last(keys, alias) ==
  LET aliased == {i \in 1..Len(keys) : keys[i] \in DOMAIN alias}
  IN  IF aliased = {} THEN NoKey
      ELSE alias[keys[CHOOSE i \in aliased : \A j \in aliased : j <= i]]

RECURSIVE FirstAlias(_, _)
\* lines 404-412: the alias of the first candidate key that has one
FirstAlias(keys, alias) ==
  IF keys = <<>> THEN NoKey
  ELSE IF Head(keys) \in DOMAIN alias THEN alias[Head(keys)]
       ELSE FirstAlias(Tail(keys), alias)

\* variant: the fallback joins the aliased cluster whatever its representative
NullFallback_anyOrigin(bug, alias, votes) ==
  LET nullKey == createNullSentinelKey(bug)
  IN  IF nullKey \in DOMAIN alias
      THEN LET nullAlias == alias[nullKey]
           IN  IF HasEntry(votes, nullAlias) THEN nullAlias ELSE NoKey
      ELSE NoKey

\* lines 418-427: null-sentinel fallback of a line-based bug
NullFallback(bug, alias, votes) ==
  LET nullKey == createNullSentinelKey(bug)
  IN  IF nullKey \in DOMAIN alias
      THEN LET nullAlias == alias[nullKey]
           IN  IF HasEntry(votes, nullAlias)
                  /\ ~HasLine(GetEntry(votes, nullAlias).bug)
               THEN nullAlias ELSE NoKey
      ELSE NoKey

FindCanonicalKey(bug, keys, alias, votes) ==
  LET found == FirstAlias(keys, alias)
  IN  IF found = NoKey /\ HasLine(bug)
      THEN NullFallback(bug, alias, votes)
      ELSE found

\* variant: the pass is listed but the count is left as it was
AddVote_uncounted(entry, passIndex) ==
  IF passIndex \notin Range(entry.passIndices)
  THEN [entry EXCEPT !.passIndices = Append(@, passIndex)]
  ELSE entry

\* variant: every report of a pass is counted
AddVote_everyReport(entry, passIndex) ==
  [entry EXCEPT !.voteCount = @ + 1,
                !.passIndices = Append(@, passIndex)]

\* variant: a report that joins a cluster is not counted
AddVote_forgotten(entry, passIndex) == entry

\* lines 431-435: one vote per pass
AddVote(entry, passIndex) ==
  IF passIndex \notin Range(entry.passIndices)
  THEN [entry EXCEPT !.voteCount = @ + 1,
                     !.passIndices = Append(@, passIndex)]
  ELSE entry

\* variant: the latest line-based report becomes the representative
PreferLineBased_latest(entry, bug) ==
  IF HasLine(bug) THEN [entry EXCEPT !.bug = bug] ELSE entry

\* lines 436-439: prefer line-based bug details over null-line placeholder
PreferLineBased(entry, bug) ==
  IF ~HasLine(entry.bug) /\ HasLine(bug)
  THEN [entry EXCEPT !.bug = bug]
  ELSE entry

\* variant: keyAlias.set(key, target) whether the key is present or not
RegisterIfAbsent_overwrite(alias, keys, target) ==
  [key \in Range(keys) |-> target] @@ alias

RECURSIVE RegisterIfAbsent(_, _, _)
\* lines 442-446 and 466-468: if (!keyAlias.has(key)) keyAlias.set(key, target)
RegisterIfAbsent(alias, keys, target) ==
  IF keys = <<>> THEN alias
  ELSE RegisterIfAbsent(
         IF Head(keys) \in DOMAIN alias THEN alias
         ELSE alias @@ (Head(keys) :> target),
         Tail(keys), target)

\* variant: only the canonical key of a new cluster is registered
RegisterAll_canonicalOnly(alias, keys, target) ==
  (target :> target) @@ alias

RECURSIVE RegisterAll(_, _, _)
\* lines 456-458: keyAlias.set(key, target) for every candidate key
RegisterAll(alias, keys, target) ==
  IF keys = <<>> THEN alias
  ELSE RegisterAll((Head(keys) :> target) @@ alias, Tail(keys), target)

\* lines 450-454: the entry of a new cluster
NewEntry(key, bug, passIndex) ==
  [key |-> key, bug |-> bug, voteCount |-> 1, passIndices |-> <<passIndex>>]

\* variant: a line-based bug leaves no null-sentinel alias
RegisterNullSentinel_skipped(alias, bug, target) == alias

\* lines 464-469: null-sentinel alias of a line-based bug
RegisterNullSentinel(alias, bug, target) ==
  IF HasLine(bug)
  THEN RegisterIfAbsent(alias, <<createNullSentinelKey(bug)>>, target)
  ELSE alias

\* lines 387-470: the cluster map and the alias table after one iteration of
\* the inner loop, as a function of their values before it
VoteStep(st, passIndex, pos, bugData) ==
  LET bug == NewBug(bugData, passIndex, pos)
      candidateKeys == createBugSimilarityKeys(bug)
      found == FindCanonicalKey(bug, candidateKeys, st.keyAlias, st.bugVotes)
  IN  IF found # NoKey
      THEN IF ~HasEntry(st.bugVotes, found) THEN st
           ELSE LET i == EntryIndex(st.bugVotes, found)
                    voted == PreferLineBased(AddVote(st.bugVotes[i], passIndex), bug)
                    aliased == RegisterIfAbsent(st.keyAlias, candidateKeys, found)
                IN  [bugVotes |-> [st.bugVotes EXCEPT ![i] = voted],
                     keyAlias |-> RegisterNullSentinel(aliased, bug, found)]
      ELSE LET canonicalKey == candidateKeys[1]
               aliased == RegisterAll(st.keyAlias, candidateKeys, canonicalKey)
           IN  [bugVotes |-> Append(st.bugVotes, NewEntry(canonicalKey, bug, passIndex)),
                keyAlias |-> RegisterNullSentinel(aliased, bug, canonicalKey)]

RECURSIVE VotePass(_, _, _, _)
\* line 387: the inner loop over the reports of one pass, from position pos
VotePass(st, passIndex, bugs, pos) ==
  IF pos >= Len(bugs) THEN st
  ELSE VotePass(VoteStep(st, passIndex, pos, bugs[pos + 1]), passIndex, bugs, pos + 1)

RECURSIVE VoteAll(_, _, _)
\* line 386: the outer loop over the listed passes
VoteAll(st, results, indices) ==
  IF indices = <<>> THEN st
  ELSE VoteAll(VotePass(st, Head(indices), results[Head(indices)].bugs, 0),
               results, Tail(indices))

\* lines 381-384: both maps are created empty
NoVotes == [bugVotes |-> <<>>, keyAlias |-> <<>>]

\* variant: strictly more votes than the threshold are required
PassesThreshold_strict(voteCount, threshold) == voteCount > threshold

\* line 476
PassesThreshold(voteCount, threshold) == voteCount >= threshold

RECURSIVE FilterByThreshold(_, _)
\* lines 474-481
FilterByThreshold(votes, threshold) ==
  IF votes = <<>> THEN <<>>
  ELSE (IF PassesThreshold(Head(votes).voteCount, threshold)
        THEN <<Head(votes).bug>> ELSE <<>>)
       \o FilterByThreshold(Tail(votes), threshold)

\* variant: an unreachable threshold is raised as an error
UnreachableOutcome_throws == "threw"

\* lines 371-378: an unreachable threshold is logged and [] is returned
UnreachableOutcome == "done"

InitVoting ==
  /\ pc = "start"
  /\ apc = "idle" /\ passResults = <<>> /\ outOfOrder = FALSE
  /\ MetaIdle /\ MergeIdle /\ DiffIdle
  /\ passError \in [PassIndices -> BOOLEAN]
  /\ voteThreshold \in 1..NumPasses
  /\ successfulResults = <<>>
  /\ resultPos = 0 /\ bugPos = 0 /\ reportCount = 0
  /\ bugVotes = <<>> /\ keyAlias = <<>>
  /\ votedBugs = <<>> /\ voteLog = {}
  /\ argA = NotCalled /\ argB = NotCalled
  /\ keysA = NotCalled /\ keysB = NotCalled
  /\ nullKeyA = NotCalled /\ nullKeyB = NotCalled

\* lines 361-384
StartVoting ==
  /\ pc = "start"
  /\ LET successful == SuccessfulFrom(passError, 0)
     IN  /\ successfulResults' = successful
         /\ IF Len(successful) = 0
            THEN pc' = "done" /\ resultPos' = 0
            ELSE IF Len(successful) < voteThreshold
                 THEN pc' = UnreachableOutcome /\ resultPos' = 0
                 ELSE pc' = "loop" /\ resultPos' = 1
  /\ votedBugs' = <<>>
  /\ UNCHANGED <<passError, voteThreshold, bugPos, reportCount, bugVotes, keyAlias,
                 voteLog>>
  /\ UNCHANGED keyVars
  /\ UNCHANGED analyzeVars
  /\ UNCHANGED <<metaVars, mergeVars, diffVars>>

\* a property that a report of a pass output does not have: the output of a
\* pass is checked for its bugs array only (lines 847-862), not report by
\* report; no string holds this element
Undefined == <<"undefined">>

\* types.ts 120-121: bug.title.toLowerCase() and bug.filePath.toLowerCase()
\* throw a TypeError when the property is undefined
ThrowsTypeError(bugData) ==
  bugData.title = Undefined \/ bugData.filePath = Undefined

\* lines 387-470: one iteration of the inner loop, for the next report of the
\* current pass
IterateBug(bugData) ==
  /\ pc = "loop"
  /\ IF ThrowsTypeError(bugData)
     THEN \* bug.title.toLowerCase() of createBugSimilarityKeys: TypeError
          /\ pc' = "threw"
          /\ UNCHANGED <<bugPos, reportCount, bugVotes, keyAlias, voteLog>>
     ELSE LET passIndex == successfulResults[resultPos]
              bug == NewBug(bugData, passIndex, bugPos)
              candidateKeys == createBugSimilarityKeys(bug)
              found == FindCanonicalKey(bug, candidateKeys, keyAlias, bugVotes)
          IN  IF found # NoKey
              THEN IF ~HasEntry(bugVotes, found)
                   THEN \* bugVotes.get(canonicalKey)! is undefined: TypeError
                        /\ pc' = "threw"
                        /\ UNCHANGED <<bugPos, reportCount, bugVotes, keyAlias, voteLog>>
                   ELSE LET i == EntryIndex(bugVotes, found)
                            voted == PreferLineBased(AddVote(bugVotes[i], passIndex), bug)
                            aliased == RegisterIfAbsent(keyAlias, candidateKeys, found)
                        IN  /\ bugVotes' = [bugVotes EXCEPT ![i] = voted]
                            /\ keyAlias' = RegisterNullSentinel(aliased, bug, found)
                            /\ voteLog' = voteLog \cup
                                 {[passIndex |-> passIndex, data |-> bugData, key |-> found]}
                            /\ bugPos' = bugPos + 1
                            /\ reportCount' = reportCount + 1
                            /\ pc' = "loop"
              ELSE LET canonicalKey == candidateKeys[1]
                       aliased == RegisterAll(keyAlias, candidateKeys, canonicalKey)
                   IN  /\ bugVotes' = Append(bugVotes, NewEntry(canonicalKey, bug, passIndex))
                       /\ keyAlias' = RegisterNullSentinel(aliased, bug, canonicalKey)
                       /\ voteLog' = voteLog \cup
                            {[passIndex |-> passIndex, data |-> bugData, key |-> canonicalKey]}
                       /\ bugPos' = bugPos + 1
                       /\ reportCount' = reportCount + 1
                       /\ pc' = "loop"
  /\ UNCHANGED <<passError, voteThreshold, successfulResults, resultPos, votedBugs>>
  /\ UNCHANGED keyVars
  /\ UNCHANGED analyzeVars
  /\ UNCHANGED <<metaVars, mergeVars, diffVars>>

\* line 386: the bug list of the current pass is exhausted, the next successful
\* pass follows
NextResult ==
  /\ pc = "loop"
  /\ resultPos < Len(successfulResults)
  /\ resultPos' = resultPos + 1
  /\ bugPos' = 0
  /\ UNCHANGED <<pc, passError, voteThreshold, successfulResults, reportCount,
                 bugVotes, keyAlias, votedBugs, voteLog>>
  /\ UNCHANGED keyVars
  /\ UNCHANGED analyzeVars
  /\ UNCHANGED <<metaVars, mergeVars, diffVars>>

\* lines 473-483: the last pass is exhausted; filter by vote threshold and return
ReturnVotedBugs ==
  /\ pc = "loop"
  /\ resultPos = Len(successfulResults)
  /\ votedBugs' = FilterByThreshold(bugVotes, voteThreshold)
  /\ pc' = "done"
  /\ UNCHANGED <<passError, voteThreshold, successfulResults, resultPos, bugPos,
                 reportCount, bugVotes, keyAlias, voteLog>>
  /\ UNCHANGED keyVars
  /\ UNCHANGED analyzeVars
  /\ UNCHANGED <<metaVars, mergeVars, diffVars>>

Next ==
  \/ StartVoting
  \/ \E bugData \in VoteReports :
       reportCount < MaxReports /\ IterateBug(bugData)
  \/ NextResult
  \/ ReturnVotedBugs

Spec == InitVoting /\ [][Next]_vars

----------------------------------------------------------------------------
(* One successful pass that reports the same title in the same file at      *)
(* lines between 2 and 50, listed in ascending line order                   *)

\* largest number of reports of the single pass
MaxChainBugs == 12

ChainLines == {2, 50} \cup {5 * k + 3 : k \in 0..9}

ChainReports ==
  {Report(T_NullDeref, "high", F_a, <<n>>, NoLine) : n \in ChainLines}

InitChain ==
  /\ InitVoting
  /\ voteThreshold = 1
  /\ \A i \in PassIndices : passError[i] <=> (i # 0)

NextChain ==
  \/ StartVoting
  \/ \E bugData \in ChainReports :
       /\ reportCount < MaxChainBugs
       /\ \A e \in voteLog : LineOf(e.data) < LineOf(bugData)
       /\ IterateBug(bugData)
  \/ ReturnVotedBugs

SpecChain == InitChain /\ [][NextChain]_vars

----------------------------------------------------------------------------
(* Passes that report the same title in the same file without a line number *)
(* and at lines 11, 12 and 50                                               *)

BridgeReports ==
  { Report(T_NullDeref, "critical", F_a, NoLine, NoLine),
    Report(T_NullDeref, "high", F_a, <<12>>, <<12>>),
    Report(T_nullderefPadded, "medium", F_A_padded, <<11>>, <<13>>),
    Report(T_NullDeref, "low", F_a, <<50>>, NoLine) }

\* the first two passes succeed or fail, every later pass fails
InitBridge ==
  /\ InitVoting
  /\ \A i \in PassIndices : (i >= 2) => passError[i]

NextBridge ==
  \/ StartVoting
  \/ \E bugData \in BridgeReports :
       reportCount < MaxReports /\ IterateBug(bugData)
  \/ NextResult
  \/ ReturnVotedBugs

SpecBridge == InitBridge /\ [][NextBridge]_vars

----------------------------------------------------------------------------
(* Passes that report the same title in the same file at lines 5, 9, 10    *)
(* and 12, and once with an end line but no start line                     *)

\* startLine and endLine are both optional in the schema of a pass output
\* (lines 43-52), so a report can have the second without the first
ClusterReports ==
  { Report(T_NullDeref, "low", F_a, <<5>>, NoLine),
    Report(T_NullDeref, "high", F_a, <<9>>, <<9>>),
    Report(T_nullderefPadded, "medium", F_A_padded, <<10>>, <<12>>),
    Report(T_NullDeref, "critical", F_a, <<12>>, <<12>>),
    Report(T_NullDeref, "medium", F_a, NoLine, <<12>>) }

\* the first two passes succeed or fail, every later pass fails
InitCluster ==
  /\ InitVoting
  /\ \A i \in PassIndices : (i >= 2) => passError[i]

NextCluster ==
  \/ StartVoting
  \/ \E bugData \in ClusterReports :
       reportCount < MaxReports /\ IterateBug(bugData)
  \/ NextResult
  \/ ReturnVotedBugs

SpecCluster == InitCluster /\ [][NextCluster]_vars

----------------------------------------------------------------------------
(* Analyzer.analyzeDiff: the passes run concurrently as subprocesses, their *)
(* results are awaited together and then voted on                           *)

\* largest number of reports of all passes of one analyzeDiff call
MaxPassReports == 2

AnalyzeReports ==
  { Report(T_NullDeref, "high", F_a, <<9>>, <<9>>),
    Report(T_nullderefPadded, "medium", F_A_padded, <<10>>, <<12>>) }

BugLists == UNION {[1..n -> AnalyzeReports] : n \in 0..MaxPassReports}

\* the exit code of a child that was killed by a signal is null
NoCode == <<>>

\* what the claude subprocess of a pass does: it exits with code 0 and a JSON
\* document on stdout, exits with code 0 and unparseable output, exits with a
\* non-zero code, is killed when the spawn timeout expires, or cannot be
\* spawned
ChildOutcomes ==
  {[cause |-> "exit0", event |-> "close", code |-> <<0>>, valid |-> TRUE,
    bugs |-> list] : list \in BugLists}
  \cup
  {[cause |-> "unparsed", event |-> "close", code |-> <<0>>, valid |-> FALSE,
    bugs |-> <<>>],
   [cause |-> "nonzero", event |-> "close", code |-> <<1>>, valid |-> FALSE,
    bugs |-> <<>>],
   [cause |-> "timeout", event |-> "close", code |-> NoCode, valid |-> FALSE,
    bugs |-> <<>>],
   [cause |-> "spawnError", event |-> "error", code |-> NoCode, valid |-> FALSE,
    bugs |-> <<>>]}

\* lines 809-845: a parse failure is logged and an empty result is returned
parseClaudeJsonOutput(out) == IF out.valid THEN out.bugs ELSE <<>>

\* variant: if (code), which lets the null code of a killed child through
RejectsOnClose_truthy(code) == code # NoCode /\ code[1] # 0

\* line 765: if (code !== 0)
RejectsOnClose(code) == code # <<0>>

\* lines 729-803: the promise of the subprocess
runClaudeAnalysis(out) ==
  IF out.event = "error" \/ RejectsOnClose(out.code)
  THEN [rejected |-> TRUE, bugs |-> <<>>]
  ELSE [rejected |-> FALSE, bugs |-> parseClaudeJsonOutput(out)]

\* variant: without the catch block the rejection reaches Promise.all
SettleAs_rethrown(rejected) == IF rejected THEN "rejected" ELSE "fulfilled"

\* lines 327-350: the catch block turns a rejection into a returned result
SettleAs(rejected) == "fulfilled"

\* how the subprocess ended: with exit code 0 ("zero"), by a timeout or with
\* a non-zero exit code ("abnormal"), or it never started ("unspawned")
ExitOf(out) ==
  IF out.event = "error" THEN "unspawned"
  ELSE IF out.code = <<0>> THEN "zero" ELSE "abnormal"

\* lines 315-351; exit records how the subprocess of the pass ended
runSingleAnalysisPass(out) ==
  LET r == runClaudeAnalysis(out)
  IN  [state |-> SettleAs(r.rejected), exit |-> ExitOf(out),
       bugs |-> IF r.rejected THEN <<>> ELSE r.bugs,
       error |-> r.rejected]

Running == [state |-> "running", exit |-> "none", bugs |-> <<>>, error |-> FALSE]

RECURSIVE SumLen(_, _)
SumLen(results, i) ==
  IF i >= NumPasses THEN 0 ELSE Len(results[i].bugs) + SumLen(results, i + 1)

\* lines 232-242: every pass is started before any of them is awaited
InitAnalyze ==
  /\ apc = "awaiting"
  /\ passResults = [i \in PassIndices |-> Running]
  /\ outOfOrder = FALSE
  /\ pc = "start"
  /\ passError = [i \in PassIndices |-> FALSE]
  /\ voteThreshold \in 1..NumPasses
  /\ successfulResults = <<>>
  /\ resultPos = 0 /\ bugPos = 0 /\ reportCount = 0
  /\ bugVotes = <<>> /\ keyAlias = <<>>
  /\ votedBugs = <<>> /\ voteLog = {}
  /\ argA = NotCalled /\ argB = NotCalled
  /\ keysA = NotCalled /\ keysB = NotCalled
  /\ nullKeyA = NotCalled /\ nullKeyB = NotCalled
  /\ MetaIdle /\ MergeIdle /\ DiffIdle

\* the subprocess of pass i ends and the promise of the pass settles
PassSettles(i, out) ==
  /\ passResults[i].state = "running"
  /\ SumLen(passResults, 0) + Len(out.bugs) <= MaxPassReports
  /\ passResults' = [passResults EXCEPT ![i] = runSingleAnalysisPass(out)]
  /\ outOfOrder' =
       (outOfOrder \/ \E j \in PassIndices : j < i /\ passResults[j].state = "running")
  /\ UNCHANGED apc
  /\ UNCHANGED voteVars
  /\ UNCHANGED keyVars
  /\ UNCHANGED <<metaVars, mergeVars, diffVars>>

\* lines 188-199: the result returned when no pass succeeded
AllPassesFailedResult ==
  [bugs |-> <<>>, summary |-> "All analysis passes failed.",
   rawSummary |-> "All analysis passes failed.", riskLevel |-> "low"]

\* lines 169-202: await Promise.all(passPromises), which rejects as soon as one
\* promise rejects and is fulfilled when all are; then the successful passes
\* are counted
AwaitAll ==
  /\ apc = "awaiting"
  /\ IF \E i \in PassIndices : passResults[i].state = "rejected"
     THEN /\ apc' = "threw"
          /\ UNCHANGED passError
     ELSE /\ \A i \in PassIndices : passResults[i].state = "fulfilled"
          /\ passError' = [i \in PassIndices |-> passResults[i].error]
          /\ apc' = IF \A i \in PassIndices : passResults[i].error
                    THEN "returned" ELSE "voting"
  /\ result' = IF /\ \A i \in PassIndices : passResults[i].state = "fulfilled"
                  /\ \A i \in PassIndices : passResults[i].error
               THEN AllPassesFailedResult ELSE result
  /\ UNCHANGED <<passResults, outOfOrder>>
  /\ UNCHANGED <<pc, voteThreshold, successfulResults, resultPos, bugPos,
                 reportCount, bugVotes, keyAlias, votedBugs, voteLog>>
  /\ UNCHANGED keyVars
  /\ UNCHANGED <<metaBugs, firstSummary, metaReturned>>
  /\ UNCHANGED <<mergeVars, diffVars>>

\* result.output.bugs of the pass the outer loop is at
CurrentBugs == passResults[successfulResults[resultPos]].bugs

\* line 205: applyMajorityVoting(passResults, voteThreshold)
AnalyzeStartVoting == apc = "voting" /\ StartVoting

AnalyzeIterateBug ==
  /\ apc = "voting" /\ pc = "loop"
  /\ bugPos < Len(CurrentBugs)
  /\ IterateBug(CurrentBugs[bugPos + 1])

AnalyzeNextResult ==
  /\ apc = "voting" /\ pc = "loop"
  /\ bugPos = Len(CurrentBugs)
  /\ NextResult

AnalyzeReturnVotedBugs ==
  /\ apc = "voting" /\ pc = "loop"
  /\ bugPos = Len(CurrentBugs)
  /\ ReturnVotedBugs

\* lines 208-217: the voted bugs are combined into the result and returned
CombineResults ==
  /\ apc = "voting"
  /\ pc \in {"done", "threw"}
  /\ apc' = IF pc = "done" THEN "returned" ELSE "threw"
  /\ UNCHANGED <<passResults, outOfOrder>>
  /\ UNCHANGED voteVars
  /\ UNCHANGED keyVars
  /\ UNCHANGED <<metaVars, mergeVars, diffVars>>

NextAnalyze ==
  \/ \E i \in PassIndices : \E out \in ChildOutcomes : PassSettles(i, out)
  \/ AwaitAll
  \/ AnalyzeStartVoting
  \/ AnalyzeIterateBug
  \/ AnalyzeNextResult
  \/ AnalyzeReturnVotedBugs
  \/ CombineResults

SpecAnalyze == InitAnalyze /\ [][NextAnalyze]_vars

\* a report that lacks its title: the fallback of parseClaudeJsonOutput parses
\* envelope.result, which no schema was applied to
UntitledReport == Report(Undefined, "high", F_a, <<9>>, <<9>>)

\* the bug lists of pass outputs that were not checked against the schema
RawBugLists ==
  UNION {[1..n -> {Report(T_NullDeref, "high", F_a, <<9>>, <<9>>), UntitledReport}] :
           n \in 0..MaxPassReports}

\* ChildOutcomes with the bug lists of RawBugLists
RawChildOutcomes ==
  {[cause |-> "exit0", event |-> "close", code |-> <<0>>, valid |-> TRUE,
    bugs |-> list] : list \in RawBugLists}
  \cup {out \in ChildOutcomes : ~out.valid}

NextAnalyzeRaw ==
  \/ \E i \in PassIndices : \E out \in RawChildOutcomes : PassSettles(i, out)
  \/ AwaitAll
  \/ AnalyzeStartVoting
  \/ AnalyzeIterateBug
  \/ AnalyzeNextResult
  \/ AnalyzeReturnVotedBugs
  \/ CombineResults

SpecAnalyzeRaw == InitAnalyze /\ [][NextAnalyzeRaw]_vars

----------------------------------------------------------------------------
(* The result metadata: Analyzer.combinePassResults, buildAnalysisMeta,     *)
(* calculateRiskLevel and buildSummaryFromVotedBugs                         *)

\* longest voted bug list
MaxMetaBugs == 3

\* largest number of calls of buildAnalysisMeta on one result
MaxMetaCalls == 2

Severities == {"critical", "high", "medium", "low"}

S_critical ==
  <<"c", "r", "i", "t", "i", "c", "a", "l">>

S_high ==
  <<"h", "i", "g", "h">>

S_medium ==
  <<"m", "e", "d", "i", "u", "m">>

S_low ==
  <<"l", "o", "w">>

\* the severity as it is written into a template string
SeverityText(severity) ==
  CASE severity = "critical" -> S_critical
    [] severity = "high" -> S_high
    [] severity = "medium" -> S_medium
    [] severity = "low" -> S_low

\* line 577
NoBugsSummary ==
  <<"N", "o", " ", "b", "u", "g", "s", " ", "f", "o", "u", "n", "d", " ",
    "a", "f", "t", "e", "r", " ", "m", "a", "j", "o", "r", "i", "t", "y",
    " ", "v", "o", "t", "i", "n", "g", ".">>

\* line 601: the template string up to the count
FoundText ==
  <<"F", "o", "u", "n", "d", " ">>

\* line 601: the template string between the count and the clauses
AfterVotingText ==
  <<" ", "b", "u", "g", "(", "s", ")", " ", "a", "f", "t", "e", "r", " ",
    "m", "a", "j", "o", "r", "i", "t", "y", " ", "v", "o", "t", "i", "n",
    "g", ":", " ">>

\* line 601: the end of the template string
SeverityEndText ==
  <<" ", "s", "e", "v", "e", "r", "i", "t", "y", ".">>

\* summaries of a pass: some text, text with surrounding blanks, blanks only,
\* the empty string
N_text ==
  <<"L", "o", "o", "k", "s", " ", "f", "i", "n", "e", ".">>

N_padded ==
  <<" ", "o", "k", " ">>

N_blank ==
  <<" ", " ">>

N_empty == <<>>

Narratives == {N_text, N_padded, N_blank, N_empty}

\* a voted bug of the severity
MetaBug(severity) == Bug(<<0, 0>>, T_Leak, severity, F_a, NoLine, NoLine)

MetaBugLists ==
  UNION {[1..n -> {MetaBug(sev) : sev \in Severities}] : n \in 0..MaxMetaBugs}

\* bugs.filter((b) => b.severity === severity).length
CountSeverity(bugs, severity) ==
  Cardinality({i \in 1..Len(bugs) : bugs[i].severity = severity})

\* variant: two bugs of severity critical or high are not enough
calculateRiskLevel_moreThanTwo(bugs) ==
  IF Len(bugs) = 0 THEN "low"
  ELSE LET hasCritical == \E i \in 1..Len(bugs) : bugs[i].severity = "critical"
           hasHigh == \E i \in 1..Len(bugs) : bugs[i].severity = "high"
           criticalOrHighCount ==
             Cardinality({i \in 1..Len(bugs) :
                            bugs[i].severity = "critical" \/ bugs[i].severity = "high"})
       IN  IF hasCritical \/ criticalOrHighCount > 2 THEN "high"
           ELSE IF hasHigh \/ Len(bugs) >= 3 THEN "medium"
           ELSE "low"

\* lines 547-565
calculateRiskLevel(bugs) ==
  IF Len(bugs) = 0 THEN "low"
  ELSE LET hasCritical == \E i \in 1..Len(bugs) : bugs[i].severity = "critical"
           hasHigh == \E i \in 1..Len(bugs) : bugs[i].severity = "high"
           criticalOrHighCount ==
             Cardinality({i \in 1..Len(bugs) :
                            bugs[i].severity = "critical" \/ bugs[i].severity = "high"})
       IN  IF hasCritical \/ criticalOrHighCount >= 2 THEN "high"
           ELSE IF hasHigh \/ Len(bugs) >= 3 THEN "medium"
           ELSE "low"

\* lines 588-599: `${count} ${severity}` if the count is positive
SeverityPart(bugs, severity) ==
  IF CountSeverity(bugs, severity) > 0
  THEN <<NumberToString(CountSeverity(bugs, severity)) \o <<" ">>
         \o SeverityText(severity)>>
  ELSE <<>>

\* variant: the clauses are pushed from low to critical
SeverityParts_ascending(bugs) ==
  SeverityPart(bugs, "low") \o SeverityPart(bugs, "medium")
    \o SeverityPart(bugs, "high") \o SeverityPart(bugs, "critical")

\* lines 587-599: parts, in the order of the pushes
SeverityParts(bugs) ==
  SeverityPart(bugs, "critical") \o SeverityPart(bugs, "high")
    \o SeverityPart(bugs, "medium") \o SeverityPart(bugs, "low")

RECURSIVE Join(_, _)
\* parts.join(separator)
Join(parts, separator) ==
  IF parts = <<>> THEN <<>>
  ELSE IF Len(parts) = 1 THEN parts[1]
  ELSE parts[1] \o separator \o Join(Tail(parts), separator)

\* lines 571-609
buildSummaryFromVotedBugs(bugs, originalSummary) ==
  IF Len(bugs) = 0
  THEN IF Trim(originalSummary) # <<>> THEN originalSummary ELSE NoBugsSummary
  ELSE LET votingSummary ==
             FoundText \o NumberToString(Len(bugs)) \o AfterVotingText
               \o Join(SeverityParts(bugs), <<",", " ">>) \o SeverityEndText
       IN  IF Trim(originalSummary) # <<>>
           THEN votingSummary \o <<" ">> \o originalSummary
           ELSE votingSummary

\* lines 536-541
buildAnalysisMeta(bugs, originalSummary) ==
  [summary |-> buildSummaryFromVotedBugs(bugs, originalSummary),
   riskLevel |-> calculateRiskLevel(bugs)]

\* variant: the display summary is kept as the raw summary
RawSummaryOf_display(bugs, summary) ==
  buildSummaryFromVotedBugs(bugs, summary)

\* line 523: rawSummary: firstResult.summary
RawSummaryOf(bugs, summary) == summary

\* lines 512-527: the result of combinePassResults
combinePassResults(bugs, summary) ==
  [bugs |-> bugs,
   summary |-> buildSummaryFromVotedBugs(bugs, summary),
   rawSummary |-> RawSummaryOf(bugs, summary),
   riskLevel |-> calculateRiskLevel(bugs)]

InitMeta ==
  /\ metaBugs \in MetaBugLists
  /\ firstSummary \in Narratives
  /\ result = NotCalled /\ metaReturned = <<>>
  /\ MergeIdle /\ DiffIdle
  /\ pc = "idle"
  /\ apc = "idle" /\ passResults = <<>> /\ outOfOrder = FALSE
  /\ passError = <<>> /\ voteThreshold = 1 /\ successfulResults = <<>>
  /\ resultPos = 0 /\ bugPos = 0 /\ reportCount = 0
  /\ bugVotes = <<>> /\ keyAlias = <<>>
  /\ votedBugs = <<>> /\ voteLog = {}
  /\ argA = NotCalled /\ argB = NotCalled
  /\ keysA = NotCalled /\ keysB = NotCalled
  /\ nullKeyA = NotCalled /\ nullKeyB = NotCalled

\* line 208: combinePassResults(passResults, votedBugs, commitSha)
CallCombinePassResults ==
  /\ result = NotCalled
  /\ result' = combinePassResults(metaBugs, firstSummary)
  /\ UNCHANGED <<metaBugs, firstSummary, metaReturned>>
  /\ UNCHANGED <<analyzeVars, voteVars, keyVars, mergeVars, diffVars>>

\* a caller rebuilds the metadata of the result: it passes the bugs and the
\* rawSummary of the result and stores what is returned in the result
CallBuildAnalysisMeta ==
  /\ result # NotCalled
  /\ Len(metaReturned) < MaxMetaCalls
  /\ LET meta == buildAnalysisMeta(result.bugs, result.rawSummary)
     IN  /\ metaReturned' = Append(metaReturned, meta)
         /\ result' = [result EXCEPT !.summary = meta.summary,
                                     !.riskLevel = meta.riskLevel]
  /\ UNCHANGED <<metaBugs, firstSummary>>
  /\ UNCHANGED <<analyzeVars, voteVars, keyVars, mergeVars, diffVars>>

NextMeta == CallCombinePassResults \/ CallBuildAnalysisMeta

SpecMeta == InitMeta /\ [][NextMeta]_vars

----------------------------------------------------------------------------
(* Cross-source merge (spec.md section 4.3) *)

MaxMergeLen == 2

\* the reports either source can hold: one without a line number, two in
\* adjacent lines with differently written file and title, one far away
MergeReports ==
  { Report(T_NullDeref, "critical", F_a, NoLine, NoLine),
    Report(T_NullDeref, "high", F_a, <<9>>, <<9>>),
    Report(T_nullderefPadded, "medium", F_A_padded, <<10>>, <<12>>),
    Report(T_NullDeref, "low", F_a, <<50>>, NoLine) }

\* the BugReport lists of one source, of at most MaxMergeLen reports
MergeLists(source) ==
  UNION {{[i \in 1..n |-> NewBug(f[i], source, i)] : f \in [1..n -> MergeReports]} :
           n \in 0..MaxMergeLen}

\* the seed of a report of A leaves out its null-sentinel key
SeedKeys_candidatesOnly(bug) ==
  Range(createBugSimilarityKeys(bug))

\* "seed a key-membership set ... from every report in A (all candidate keys
\* plus the null-sentinel key)"
SeedKeys(bug) ==
  Range(createBugSimilarityKeys(bug)) \cup {createNullSentinelKey(bug)}

\* "marking null-origin where the report itself has no line number"
NullOriginOf(bug) ==
  IF HasLine(bug) THEN {} ELSE {createNullSentinelKey(bug)}

\* "register its keys the same way a new cluster would in section 4.2": all
\* candidate keys and the null-sentinel key
RegisterKeys(bug) ==
  Range(createBugSimilarityKeys(bug)) \cup {createNullSentinelKey(bug)}

\* the null-sentinel key of a line-based report is tested against every key
NullOriginHit_anyMember(bug, members, nullOrigin) ==
  HasLine(bug) /\ createNullSentinelKey(bug) \in members

\* "if no hit and it is line-based, test the null-sentinel key against the
\* null-origin set only"
NullOriginHit(bug, members, nullOrigin) ==
  HasLine(bug) /\ createNullSentinelKey(bug) \in nullOrigin

\* "test its candidate keys against the membership set", then the fallback
MergeHit(bug, members, nullOrigin) ==
  \/ Range(createBugSimilarityKeys(bug)) \cap members # {}
  \/ NullOriginHit(bug, members, nullOrigin)

KeysIdle ==
  /\ argA = NotCalled /\ argB = NotCalled
  /\ keysA = NotCalled /\ keysB = NotCalled
  /\ nullKeyA = NotCalled /\ nullKeyB = NotCalled

VotingIdle ==
  /\ pc = "idle"
  /\ passError = <<>> /\ voteThreshold = 1 /\ successfulResults = <<>>
  /\ resultPos = 0 /\ bugPos = 0 /\ reportCount = 0
  /\ bugVotes = <<>> /\ keyAlias = <<>>
  /\ votedBugs = <<>> /\ voteLog = {}

AnalyzeIdle ==
  /\ apc = "idle" /\ passResults = <<>> /\ outOfOrder = FALSE

\* merge(A, B) has been called
InitMerge ==
  /\ mergeA \in MergeLists("A")
  /\ mergeB \in MergeLists("B")
  /\ mergeCall = 1 /\ mpc = "seed"
  /\ mergePos = 0 /\ mergeOut = <<>>
  /\ memberKeys = {} /\ nullOriginKeys = {} /\ firstMerged = NotCalled
  /\ KeysIdle /\ VotingIdle /\ AnalyzeIdle /\ MetaIdle /\ DiffIdle

\* "seed a key-membership set and a null-origin set from every report in A";
\* the output starts as A
SeedFromA ==
  /\ mpc = "seed"
  /\ mergeOut' = mergeA
  /\ memberKeys' = UNION {SeedKeys(mergeA[i]) : i \in 1..Len(mergeA)}
  /\ nullOriginKeys' = UNION {NullOriginOf(mergeA[i]) : i \in 1..Len(mergeA)}
  /\ mpc' = "scan"
  /\ UNCHANGED <<mergeA, mergeB, mergeCall, mergePos, firstMerged>>
  /\ UNCHANGED <<keyVars, voteVars, analyzeVars, metaVars, diffVars>>

\* "For each report in B, in order": the next report of B is tested and, on
\* no hit, appended and registered
TestReport ==
  /\ mpc = "scan"
  /\ mergePos < Len(mergeB)
  /\ LET bug == mergeB[mergePos + 1]
     IN  IF MergeHit(bug, memberKeys, nullOriginKeys)
         THEN UNCHANGED <<mergeOut, memberKeys, nullOriginKeys>>
         ELSE /\ mergeOut' = Append(mergeOut, bug)
              /\ memberKeys' = memberKeys \cup RegisterKeys(bug)
              /\ nullOriginKeys' = nullOriginKeys \cup NullOriginOf(bug)
  /\ mergePos' = mergePos + 1
  /\ UNCHANGED <<mergeA, mergeB, mergeCall, mpc, firstMerged>>
  /\ UNCHANGED <<keyVars, voteVars, analyzeVars, metaVars, diffVars>>

\* every report of B has been tested: the output is returned
ReturnMerged ==
  /\ mpc = "scan"
  /\ mergePos = Len(mergeB)
  /\ mpc' = "returned"
  /\ firstMerged' = IF mergeCall = 1 THEN mergeOut ELSE firstMerged
  /\ UNCHANGED <<mergeA, mergeB, mergeCall, mergePos, mergeOut,
                 memberKeys, nullOriginKeys>>
  /\ UNCHANGED <<keyVars, voteVars, analyzeVars, metaVars, diffVars>>

\* the same B is merged into what the first call returned
MergeAgain ==
  /\ mpc = "returned"
  /\ mergeCall = 1
  /\ mergeA' = mergeOut
  /\ mergeCall' = 2 /\ mpc' = "seed"
  /\ mergePos' = 0 /\ mergeOut' = <<>>
  /\ memberKeys' = {} /\ nullOriginKeys' = {}
  /\ UNCHANGED <<mergeB, firstMerged>>
  /\ UNCHANGED <<keyVars, voteVars, analyzeVars, metaVars, diffVars>>

NextMerge == SeedFromA \/ TestReport \/ ReturnMerged \/ MergeAgain

SpecMerge == InitMerge /\ [][NextMerge]_vars

----------------------------------------------------------------------------
(* Analyzer.createRandomizedDiffVariants (analyzer.ts 251-309) *)

MaxDiffLines == 4

\* the prefix of the first line of a file's section of a diff
DiffGit == <<"d","i","f","f"," ","-","-","g","i","t">>

\* line.startsWith(prefix)
StartsWith(line, prefix) ==
  Len(line) >= Len(prefix) /\ SubSeq(line, 1, Len(prefix)) = prefix

\* the lines a diff can hold: the headers of two files, an added line, an
\* empty line and a context line that quotes a header
DiffLines ==
  { DiffGit \o <<" ","a">>, DiffGit \o <<" ","b">>, <<"+","x">>, <<>>,
    <<" ">> \o DiffGit }

\* diff.split("\n") of the diffs of at most MaxDiffLines lines; the empty
\* diff is the one line <<>>
Diffs == UNION {[1..n -> DiffLines] : n \in 1..MaxDiffLines}

RECURSIVE SplitFrom(_, _, _)
\* lines 276-288: the loop over the lines and the push of the last hunk; a
\* hunk (currentHunk.join("\n")) is kept as its lines
SplitFrom(hunks, currentHunk, lines) ==
  IF lines = <<>>
  THEN IF Len(currentHunk) > 0 THEN Append(hunks, currentHunk) ELSE hunks
  ELSE IF StartsWith(Head(lines), DiffGit) /\ Len(currentHunk) > 0
       THEN SplitFrom(Append(hunks, currentHunk), <<Head(lines)>>, Tail(lines))
       ELSE SplitFrom(hunks, Append(currentHunk, Head(lines)), Tail(lines))

splitDiffIntoFileHunks(lines) == SplitFrom(<<>>, <<>>, lines)

MaxInt31 == 2147483647

\* (x + y) % 2^31 for x, y < 2^31, without leaving 32 bits
AddMod31(x, y) ==
  IF x > MaxInt31 - y THEN (x - (MaxInt31 - y)) - 1 ELSE x + y

\* (a * b) % 2^31, the low 31 bits of Math.imul(a, b), for a, b < 2^31: the
\* product is put together from 16-bit and 8-bit parts of a and b so that no
\* intermediate value leaves 32 bits (the part at 2^32 has no low bits)
MulMod31(a, b) ==
  LET aH == a \div 65536
      aL == a % 65536
      bH == b \div 65536
      bL == b % 65536
      middle == ((((aH * bL) % 32768) + ((aL * bH) % 32768)) % 32768) * 65536
      lowHigh == (((aL \div 256) * bL) % 8388608) * 256
      lowLow == (aL % 256) * bL
  IN  AddMod31(AddMod31(middle, lowHigh), lowLow)

\* line 298: seed = (Math.imul(seed, 1103515245) + 12345) & 0x7fffffff
NextSeed(seed) == AddMod31(MulMod31(seed, 1103515245), 12345)

\* lines 299 and 303: Math.floor((seed / 0x80000000) * m), computed as
\* floor(seed * m / 2^31) from the two 16-bit halves of seed
RandomIndex(seed, m) ==
  ((seed \div 65536) * m + ((seed % 65536) * m) \div 65536) \div 32768

\* the element at b is copied to a and the element at a is lost
SwapAt_overwrite(array, a, b) ==
  [array EXCEPT ![a] = array[b]]

\* line 305: [result[m], result[i]] = [result[i], result[m]]
SwapAt(array, a, b) ==
  [array EXCEPT ![a] = array[b], ![b] = array[a]]

RECURSIVE ShuffleFrom(_, _, _)
\* lines 302-306: while (m > 1), with result indexed from 1
ShuffleFrom(array, m, seed) ==
  IF m <= 1 THEN array
  ELSE LET drawn == NextSeed(seed)
           i == RandomIndex(drawn, m)
       IN  ShuffleFrom(SwapAt(array, m, i + 1), m - 1, drawn)

shuffleArrayWithSeed(array, seed) == ShuffleFrom(array, Len(array), seed)

RECURSIVE JoinLines(_)
\* shuffled.join("\n"), as the lines of the joined string
JoinLines(hunks) ==
  IF hunks = <<>> THEN <<>> ELSE Head(hunks) \o JoinLines(Tail(hunks))

\* lines 251-268; the variant of loop index i (from 0) is element i + 1 and
\* is shuffled with seed i + 1
createRandomizedDiffVariants(lines, n) ==
  LET fileHunks == splitDiffIntoFileHunks(lines)
  IN  IF Len(fileHunks) <= 1
      THEN [v \in 1..n |-> lines]
      ELSE [v \in 1..n |-> JoinLines(shuffleArrayWithSeed(fileHunks, v))]

\* runParallelAnalysisPasses is about to ask for the variants of a diff
InitDiff ==
  /\ diff \in Diffs
  /\ numVariants \in 1..NumPasses
  /\ variants = NotCalled
  /\ KeysIdle /\ VotingIdle /\ AnalyzeIdle /\ MetaIdle /\ MergeIdle

\* line 227: this.createRandomizedDiffVariants(diff, numPasses)
CallCreateVariants ==
  /\ variants = NotCalled
  /\ numVariants >= 1
  /\ variants' = createRandomizedDiffVariants(diff, numVariants)
  /\ UNCHANGED <<diff, numVariants>>
  /\ UNCHANGED <<keyVars, voteVars, analyzeVars, metaVars, mergeVars>>

NextDiff == CallCreateVariants

SpecDiff == InitDiff /\ [][NextDiff]_vars

----------------------------------------------------------------------------
(* Properties of the key generator (SpecKeys) *)

KeysReturned == keysA # NotCalled /\ nullKeyA # NotCalled

SameFileAndPrefix(a, b) ==
  /\ NormalizedFile(a) = NormalizedFile(b)
  /\ TitlePrefix(a) = TitlePrefix(b)

\* C7: a bug whose startLine is null gets exactly one key from
\* createBugSimilarityKeys, and that key is its createNullSentinelKey.
C7_NullLineSingleSentinelKey ==
  (KeysReturned /\ ~HasLine(argA)) =>
    (Len(keysA) = 1 /\ keysA[1] = nullKeyA)

C7_Witness ==
  KeysReturned /\ ~HasLine(argA) /\ Len(argA.title) > TITLE_SIMILARITY_LENGTH

\* C8: a bug with a startLine gets the primary key of bucket floor(line/5)
\* first, then the shifted key of bucket floor((line+2)/5) exactly when the
\* two buckets differ; two bugs with the same normalized file, title prefix,
\* primary bucket and shifted bucket get the same key sequence.
C8_PrimaryThenShiftedKey ==
  (keysA # NotCalled /\ HasLine(argA)) =>
    LET line == LineOf(argA)
        b1 == line \div 5
        b2 == (line + 2) \div 5
        file == Trim(ToLowerCase(argA.filePath))
        prefix == Substring0(Trim(ToLowerCase(argA.title)), 50)
    IN  /\ keysA[1] = KeyTemplate(file, NumberToString(b1), prefix)
        /\ IF b1 # b2
           THEN /\ Len(keysA) = 2
                /\ keysA[2] = KeyTemplate(file, NumberToString(b2), prefix)
           ELSE Len(keysA) = 1
        /\ ( /\ HasLine(argB)
             /\ SameFileAndPrefix(argA, argB)
             /\ LineOf(argB) \div 5 = b1
             /\ (LineOf(argB) + 2) \div 5 = b2 ) => keysB = keysA

C8_Witness ==
  /\ keysA # NotCalled /\ HasLine(argA) /\ HasLine(argB)
  /\ Len(keysA) = 2
  /\ argA.title # argB.title /\ LineOf(argA) # LineOf(argB)
  /\ keysB = keysA

\* C9: no key returned by createBugSimilarityKeys for a bug with a known
\* startLine is the null-sentinel key of that bug.
C9_NoSentinelForLineBug ==
  (KeysReturned /\ HasLine(argA)) =>
    \A i \in 1..Len(keysA) : keysA[i] # nullKeyA

C9_Witness ==
  KeysReturned /\ HasLine(argA) /\ Len(keysA) = 2

AdjacentBuckets(a, b) ==
  /\ HasLine(a) /\ HasLine(b)
  /\ LineOf(a) \div 5 + 1 = LineOf(b) \div 5

ShareKey == Range(keysA) \cap Range(keysB) # {}

\* C10 as stated: any two start lines in adjacent primary buckets, same
\* normalized file and title prefix, have key sequences that share a key.
C10_Original_AdjacentBucketsShareKey ==
  (keysA # NotCalled /\ SameFileAndPrefix(argA, argB) /\ AdjacentBuckets(argA, argB))
    => ShareKey

\* C10 amended: two start lines in adjacent primary buckets, same normalized
\* file and title prefix, share a key when the lower line is at most 2 lines
\* below the bucket boundary (line mod 5 >= 3), which covers every two lines
\* at most 2 apart; when the lower line is further below they share none.
C10_NearBoundaryShareKey ==
  (keysA # NotCalled /\ SameFileAndPrefix(argA, argB) /\ AdjacentBuckets(argA, argB))
    => /\ (LineOf(argB) - LineOf(argA) <= 2 => LineOf(argA) % 5 >= 3)
       /\ (ShareKey <=> LineOf(argA) % 5 >= 3)

C10_Witness ==
  /\ keysA # NotCalled /\ SameFileAndPrefix(argA, argB)
  /\ AdjacentBuckets(argA, argB)
  /\ LineOf(argA) = 9 /\ LineOf(argB) = 10
  /\ ShareKey

----------------------------------------------------------------------------
(* Properties of applyMajorityVoting *)

SuccessCount == Len(successfulResults)

\* the cluster indices whose vote count reaches the threshold
Qualifying == {i \in 1..Len(bugVotes) : bugVotes[i].voteCount >= voteThreshold}

\* C1: with at least T successful passes, the returned list holds exactly the
\* representatives of the clusters with a vote count >= T, one entry per such
\* cluster: none below T is emitted and none at or above T is omitted.
C1_OutputIsClustersAtThreshold ==
  (pc = "done" /\ SuccessCount >= voteThreshold) =>
    /\ \A i \in 1..Len(bugVotes) :
         Cardinality({j \in 1..Len(votedBugs) : votedBugs[j] = bugVotes[i].bug})
           = IF bugVotes[i].voteCount >= voteThreshold THEN 1 ELSE 0
    /\ \A j \in 1..Len(votedBugs) :
         \E i \in Qualifying : votedBugs[j] = bugVotes[i].bug
    /\ Len(votedBugs) = Cardinality(Qualifying)

C1_Witness ==
  /\ pc = "done" /\ SuccessCount >= voteThreshold
  /\ voteThreshold = 2
  /\ Len(votedBugs) = 1
  /\ Len(bugVotes) = 2
  /\ \E i \in 1..Len(bugVotes) : bugVotes[i].voteCount = 2
  /\ \E i \in 1..Len(bugVotes) : bugVotes[i].voteCount = 1

SameReport(d1, d2) ==
  /\ d1.filePath = d2.filePath
  /\ d1.title = d2.title
  /\ d1.startLine = d2.startLine

\* the passes in which a report equal to d (file, title, startLine) was iterated
PassesReporting(d) == {e.passIndex : e \in {x \in voteLog : SameReport(x.data, d)}}

KeptAsCluster(key) ==
  /\ HasEntry(bugVotes, key)
  /\ GetEntry(bugVotes, key).voteCount >= voteThreshold
  /\ GetEntry(bugVotes, key).bug \in Range(votedBugs)

\* C2: whatever the threshold and the other reports of the call, reports with
\* the same file, title and startLine that appear in at least T distinct
\* successful passes vote in one cluster, which reaches at least T votes and
\* whose representative is in the returned list.
C2_AgreedReportIsKept ==
  (pc = "done" /\ SuccessCount >= voteThreshold) =>
    \A e \in voteLog :
      Cardinality(PassesReporting(e.data)) >= voteThreshold =>
        /\ \A x \in voteLog : SameReport(x.data, e.data) => x.key = e.key
        /\ KeptAsCluster(e.key)

C2_Witness ==
  /\ pc = "done" /\ SuccessCount = 3 /\ voteThreshold = 2
  /\ \E e \in voteLog :
       /\ Cardinality(PassesReporting(e.data)) = 2
       /\ KeptAsCluster(e.key)
       /\ GetEntry(bugVotes, e.key).voteCount = 2
       /\ \E x \in voteLog : x.key # e.key

\* the passes with at least one report that voted in the cluster of this key
PassesVotingIn(key) == {e.passIndex : e \in {x \in voteLog : x.key = key}}

\* C3: a pass contributes at most one vote to a cluster: the vote count of a
\* cluster is the number of distinct passes with a report in it, however many
\* reports of one pass land in it.
C3_OneVotePerPass ==
  \A i \in 1..Len(bugVotes) :
    bugVotes[i].voteCount = Cardinality(PassesVotingIn(bugVotes[i].key))

C3_Witness ==
  \E e1 \in voteLog : \E e2 \in voteLog :
    /\ e1 # e2 /\ e1.passIndex = e2.passIndex /\ e1.key = e2.key
    /\ GetEntry(bugVotes, e1.key).voteCount = 1
    /\ bugPos = 2

\* C4: with fewer successful passes than the threshold, the call returns an
\* empty list as a normal result (no exception), without clustering anything.
C4_UnreachableThresholdReturnsEmpty ==
  (pc # "start" /\ SuccessCount < voteThreshold) =>
    /\ pc = "done"
    /\ votedBugs = <<>>
    /\ bugVotes = <<>> /\ voteLog = {}

C4_Witness ==
  /\ pc = "done" /\ SuccessCount = 1 /\ voteThreshold = 2
  /\ votedBugs = <<>>

\* e1 is a report on the last line of a bucket, e2 one on the next line, same
\* file and title, from a different pass
StraddlingPair(e1, e2) ==
  /\ HasLine(e1.data) /\ HasLine(e2.data)
  /\ LineOf(e1.data) % 5 = 4
  /\ LineOf(e2.data) = LineOf(e1.data) + 1
  /\ SameFileAndPrefix(e1.data, e2.data)
  /\ e1.passIndex # e2.passIndex

\* C5: a bug reported on the last line of a bucket by one pass and on the next
\* line by another pass (line 9 and line 10), in either processing order, ends
\* up in one cluster whose vote count is 2.
C5_BoundaryStraddleOneCluster ==
  \A e1 \in voteLog : \A e2 \in voteLog :
    (StraddlingPair(e1, e2) /\ voteLog = {e1, e2}) =>
      /\ e1.key = e2.key
      /\ Len(bugVotes) = 1
      /\ bugVotes[1].key = e1.key
      /\ bugVotes[1].voteCount = 2

\* the report on line 10 is processed first
C5_Witness ==
  \E e1 \in voteLog : \E e2 \in voteLog :
    /\ StraddlingPair(e1, e2) /\ voteLog = {e1, e2}
    /\ LineOf(e1.data) = 9
    /\ e2.passIndex < e1.passIndex
    /\ bugVotes[1].voteCount = 2
    /\ pc = "done"

\* C6: a report at startLine 2 and a report at startLine 50 with the same
\* file and the same title prefix never vote in the same cluster.
C6_FarApartNeverSameCluster ==
  \A e1 \in voteLog : \A e2 \in voteLog :
    ( /\ HasLine(e1.data) /\ HasLine(e2.data)
      /\ LineOf(e1.data) = 2 /\ LineOf(e2.data) = 50
      /\ SameFileAndPrefix(e1.data, e2.data) )
    => e1.key # e2.key

----------------------------------------------------------------------------
(* Properties of the null-sentinel bridge and the representative (SpecBridge) *)

\* the votes recorded by the step: the report it processed and its cluster
NewVotes == voteLog' \ voteLog

\* the identifier of the bug built by the step
StepBugId == <<successfulResults[resultPos], bugPos>>

\* none of the candidate keys of the report is in the alias table
NoCandidateAliased(d) ==
  \A k \in Range(createBugSimilarityKeys(d)) : k \notin DOMAIN keyAlias

\* the null-sentinel key of the report is aliased to a cluster whose current
\* representative has no line number
NullOriginTarget(d) ==
  LET nullKey == createNullSentinelKey(d)
  IN  /\ nullKey \in DOMAIN keyAlias
      /\ HasEntry(bugVotes, keyAlias[nullKey])
      /\ ~HasLine(GetEntry(bugVotes, keyAlias[nullKey]).bug)

CreatesCluster(e) ==
  /\ Len(bugVotes') = Len(bugVotes) + 1
  /\ ~HasEntry(bugVotes, e.key)
  /\ bugVotes'[Len(bugVotes')].key = e.key

\* C11: a line-based report none of whose candidate keys is in the alias table
\* joins the cluster its null-sentinel key is aliased to when the current
\* representative of that cluster has no line number, and in every other case
\* it creates a new cluster.
C11_NullFallbackOnlyToNullRepresentative ==
  [][\A e \in NewVotes :
       (HasLine(e.data) /\ NoCandidateAliased(e.data)) =>
         IF NullOriginTarget(e.data)
         THEN /\ e.key = keyAlias[createNullSentinelKey(e.data)]
              /\ Len(bugVotes') = Len(bugVotes)
         ELSE CreatesCluster(e)]_vars

\* a cluster created by a report without a line number has been joined by a
\* line-based report, and a report at line 50 had to open its own cluster
C11_Witness ==
  \E i \in 1..Len(bugVotes) : \E j \in 1..Len(bugVotes) :
    /\ bugVotes[i].key = createNullSentinelKey(bugVotes[i].bug)
    /\ HasLine(bugVotes[i].bug) /\ LineOf(bugVotes[i].bug) = 12
    /\ HasLine(bugVotes[j].bug) /\ LineOf(bugVotes[j].bug) = 50
    /\ bugVotes[j].key # bugVotes[i].key
    /\ createNullSentinelKey(bugVotes[j].bug) = bugVotes[i].key

\* a line-based report with the same normalized file and title prefix was
\* processed before the step
LineBasedSeenBefore(d) ==
  \E x \in voteLog : HasLine(x.data) /\ SameFileAndPrefix(x.data, d)

\* C12: once a line-based report has been processed, every later report
\* without a line number and with the same normalized file and title prefix
\* votes in the existing cluster its null-sentinel key is aliased to, and no
\* cluster is created for it.
C12_NullLineReportJoinsAfterLineBased ==
  [][ /\ (Len(bugVotes') > Len(bugVotes)) => (NewVotes # {})
      /\ \A e \in NewVotes :
           (~HasLine(e.data) /\ LineBasedSeenBefore(e.data)) =>
             /\ createNullSentinelKey(e.data) \in DOMAIN keyAlias
             /\ e.key = keyAlias[createNullSentinelKey(e.data)]
             /\ HasEntry(bugVotes, e.key)
             /\ Len(bugVotes') = Len(bugVotes) ]_vars

\* a report without a line number of a later pass voted in the cluster that a
\* line-based report created
C12_Witness ==
  \E x \in voteLog : \E e \in voteLog :
    /\ HasLine(x.data) /\ ~HasLine(e.data)
    /\ SameFileAndPrefix(x.data, e.data)
    /\ x.passIndex < e.passIndex
    /\ x.key = e.key
    /\ x.key # createNullSentinelKey(x.data)
    /\ Len(bugVotes) = 1 /\ bugVotes[1].voteCount = 2

\* the votes recorded in the cluster of the key
ClusterVotes(key) == {e \in voteLog : e.key = key}

\* the representative is a report that voted in the cluster; it has a line
\* number as soon as one of the voters has, and then no line-based voter comes
\* from an earlier pass
RepresentativeIsEarliestLineBased ==
  \A i \in 1..Len(bugVotes) :
    LET c == bugVotes[i]
        lineBased == {e \in ClusterVotes(c.key) : HasLine(e.data)}
    IN  /\ \E e \in ClusterVotes(c.key) :
             SameReport(c.bug, e.data) /\ e.passIndex = c.bug.id[1]
        /\ (lineBased = {}) =>
             /\ ~HasLine(c.bug)
             /\ \A e \in ClusterVotes(c.key) : c.bug.id[1] <= e.passIndex
        /\ (lineBased # {}) =>
             /\ HasLine(c.bug)
             /\ \A e \in lineBased : c.bug.id[1] <= e.passIndex

\* a step replaces a representative only if it had no line number, and then
\* by the line-based report the step processes; the first line-based report
\* that joins such a cluster does replace it; a new cluster starts with the
\* report that created it
RepresentativeStep ==
  /\ \A i \in 1..Len(bugVotes) :
       (bugVotes'[i].bug # bugVotes[i].bug) =>
         /\ ~HasLine(bugVotes[i].bug)
         /\ HasLine(bugVotes'[i].bug)
         /\ bugVotes'[i].bug.id = StepBugId
  /\ \A e \in NewVotes :
       IF HasEntry(bugVotes, e.key)
       THEN (HasLine(e.data) /\ ~HasLine(GetEntry(bugVotes, e.key).bug)) =>
              /\ GetEntry(bugVotes', e.key).bug.id = StepBugId
              /\ SameReport(GetEntry(bugVotes', e.key).bug, e.data)
       ELSE /\ GetEntry(bugVotes', e.key).bug.id = StepBugId
            /\ SameReport(GetEntry(bugVotes', e.key).bug, e.data)

----------------------------------------------------------------------------
(* Properties of analyzeDiff (SpecAnalyze) *)

AllSettled == \A i \in PassIndices : passResults[i].state # "running"

\* the passes that settled without an error
NotFailed == {i \in PassIndices : passResults[i].state # "running" /\ ~passResults[i].error}

Failed == {i \in PassIndices : passResults[i].error}

RECURSIVE AscendingFrom(_, _)
\* the pass indices of the set, from i on, in ascending order
AscendingFrom(set, i) ==
  IF i >= NumPasses THEN <<>>
  ELSE (IF i \in set THEN <<i>> ELSE <<>>) \o AscendingFrom(set, i + 1)

\* the output of aggregating the listed passes and no others
OutputOf(indices) ==
  FilterByThreshold(VoteAll(NoVotes, passResults, indices).bugVotes, voteThreshold)

RECURSIVE ReportsOf(_)
ReportsOf(indices) ==
  IF indices = <<>> THEN 0
  ELSE Len(passResults[Head(indices)].bugs) + ReportsOf(Tail(indices))

\* C14: a failed pass is not among the aggregated passes and has no report and
\* no vote in any cluster; when at least T passes succeed the call completes,
\* every report of the successful passes is processed, and the returned list
\* is the one obtained by aggregating the successful passes alone.
C14_FailedPassContributesNothing ==
  /\ \A e \in voteLog : e.passIndex \notin Failed
  /\ \A i \in 1..Len(bugVotes) : Range(bugVotes[i].passIndices) \cap Failed = {}
  /\ Range(successfulResults) \cap Failed = {}
  /\ (apc = "returned" /\ Cardinality(NotFailed) >= voteThreshold) =>
       /\ pc = "done"
       /\ reportCount = ReportsOf(AscendingFrom(NotFailed, 0))
       /\ votedBugs = OutputOf(AscendingFrom(NotFailed, 0))

\* the second of three passes failed, the first and the third agree on a bug
\* and the threshold is 2
C14_Witness ==
  /\ apc = "returned" /\ pc = "done"
  /\ voteThreshold = 2
  /\ Failed = {1}
  /\ Len(votedBugs) = 1
  /\ bugVotes[1].passIndices = <<0, 2>>

\* C15: analyzeDiff leaves the wait for the passes only when every pass has
\* settled, leaves it towards voting or the all-failed result and never by an
\* error; so while it votes or after it returned no pass is still running.
C15_VotingAfterAllSettled ==
  /\ [](apc \in {"voting", "returned", "threw"} => AllSettled)
  /\ [](apc # "threw")
  /\ [][(apc = "awaiting" /\ apc' # "awaiting") =>
          (AllSettled /\ apc' \in {"voting", "returned"})]_vars

\* voting has begun after a pass failed before a pass of lower index settled
C15_Witness ==
  /\ apc = "voting" /\ pc = "loop"
  /\ outOfOrder
  /\ Failed # {} /\ NotFailed # {}
  /\ voteLog # {}

\* C16: a pass whose subprocess timed out or exited with a non-zero code
\* carries an error, is not among the successful passes and casts no vote.
C16_TimeoutOrNonZeroExitIsFailure ==
  \A i \in PassIndices :
    (passResults[i].exit = "abnormal") =>
      /\ passResults[i].error
      /\ i \notin NotFailed
      /\ (apc \in {"voting", "returned"}) => passError[i]
      /\ i \notin Range(successfulResults)
      /\ \A e \in voteLog : e.passIndex # i

\* the subprocesses of two passes timed out or exited with a non-zero code,
\* another pass succeeded and its bug is returned
C16_Witness ==
  /\ apc = "returned" /\ pc = "done"
  /\ Cardinality({i \in PassIndices : passResults[i].exit = "abnormal"}) = 2
  /\ SuccessCount = 1
  /\ Len(votedBugs) = 1

RECURSIVE IsAscending(_)
IsAscending(indices) ==
  \/ Len(indices) <= 1
  \/ (indices[1] < indices[2] /\ IsAscending(Tail(indices)))

\* the cluster map and the alias table after the reports of the passes before
\* the current one, in pass-index order, and the first bugPos reports of the
\* current pass, in input order
ProcessedInOrder ==
  VotePass(VoteAll(NoVotes, passResults,
                   SubSeq(AscendingFrom(NotFailed, 0), 1, resultPos - 1)),
           successfulResults[resultPos], SubSeq(CurrentBugs, 1, bugPos), 0)

\* C17: the successful passes are visited in ascending pass index and the
\* reports of a pass in input order, whatever the order in which the passes
\* settled: at every point of the loop the clusters (vote counts,
\* representatives, order) and the alias table are those obtained from the
\* per-pass outcomes in that order, and so is the returned list.
C17_ProcessedInPassIndexOrder ==
  /\ IsAscending(successfulResults)
  /\ (apc \in {"voting", "returned"} /\ pc \in {"loop", "done"} /\ resultPos >= 1) =>
       [bugVotes |-> bugVotes, keyAlias |-> keyAlias] = ProcessedInOrder
  /\ (apc = "returned" /\ pc = "done") =>
       votedBugs = OutputOf(AscendingFrom(NotFailed, 0))

\* the second pass settled before the first; the report of the first pass
\* still created the cluster and the report of the second joined it
C17_Witness ==
  /\ apc = "returned" /\ pc = "done"
  /\ outOfOrder
  /\ Len(bugVotes) = 1
  /\ bugVotes[1].passIndices = <<0, 1>>
  /\ bugVotes[1].bug.id = <<0, 0>>
  /\ LineOf(bugVotes[1].bug) = 9
  /\ passResults[1].bugs # <<>> /\ LineOf(passResults[1].bugs[1]) = 10

----------------------------------------------------------------------------
(* Properties of the result metadata (SpecMeta) *)

\* the risk level as the rule states it, from the severity counts
RiskByCounts(bugs) ==
  LET critical == CountSeverity(bugs, "critical")
      high == CountSeverity(bugs, "high")
  IN  IF critical >= 1 \/ critical + high >= 2 THEN "high"
      ELSE IF high >= 1 \/ Len(bugs) >= 3 THEN "medium"
      ELSE "low"

\* C18: the risk level of a bug list is 'high' if it has a critical bug or at
\* least two bugs of severity critical or high, otherwise 'medium' if it has a
\* high bug or at least three bugs, otherwise 'low'; the empty list gives 'low'.
C18_RiskLevelFromSeverities ==
  (result # NotCalled) =>
    /\ result.riskLevel = RiskByCounts(result.bugs)
    /\ (result.bugs = <<>>) => (result.riskLevel = "low")
    /\ \A k \in 1..Len(metaReturned) :
         metaReturned[k].riskLevel = RiskByCounts(result.bugs)

\* two high bugs and a low one: no critical bug, yet the level is 'high'
C18_Witness ==
  /\ result # NotCalled
  /\ Len(result.bugs) = 3
  /\ CountSeverity(result.bugs, "high") = 2
  /\ CountSeverity(result.bugs, "low") = 1
  /\ result.riskLevel = "high"
  /\ Len(metaReturned) = 1

IsBlank(str) == \A i \in 1..Len(str) : IsWhiteSpace(str[i])

SeverityOrder == <<"critical", "high", "medium", "low">>

\* the severities that occur in the list, in the fixed order
OccurringSeverities(bugs) ==
  SelectSeq(SeverityOrder, LAMBDA sev : CountSeverity(bugs, sev) > 0)

RECURSIVE ClauseText(_, _)
\* "<count> <severity>" for each listed severity, separated by ", "
ClauseText(bugs, sevs) ==
  IF sevs = <<>> THEN <<>>
  ELSE NumberToString(CountSeverity(bugs, Head(sevs))) \o <<" ">>
         \o SeverityText(Head(sevs))
         \o (IF Len(sevs) > 1 THEN <<",", " ">> ELSE <<>>)
         \o ClauseText(bugs, Tail(sevs))

RECURSIVE ClauseCountSum(_, _)
ClauseCountSum(bugs, sevs) ==
  IF sevs = <<>> THEN 0
  ELSE CountSeverity(bugs, Head(sevs)) + ClauseCountSum(bugs, Tail(sevs))

\* the summary as the rule states it
SummaryByRule(bugs, narrative) ==
  IF bugs = <<>>
  THEN IF IsBlank(narrative) THEN NoBugsSummary ELSE narrative
  ELSE FoundText \o NumberToString(Len(bugs)) \o AfterVotingText
         \o ClauseText(bugs, OccurringSeverities(bugs)) \o SeverityEndText
         \o (IF IsBlank(narrative) THEN <<>> ELSE <<" ">> \o narrative)

\* C19: for an empty bug list the summary is the carried narrative when it is
\* not blank and the fixed 'no bugs' string otherwise; for a non-empty list it
\* states the total count, which is the list length and the sum of the clause
\* counts, then one clause for each severity with a non-zero count in the
\* order critical, high, medium, low, then the narrative if it is not blank.
C19_SummaryFromSeverityCounts ==
  (result # NotCalled) =>
    /\ ClauseCountSum(result.bugs, OccurringSeverities(result.bugs))
         = Len(result.bugs)
    /\ result.summary = SummaryByRule(result.bugs, firstSummary)
    /\ \A k \in 1..Len(metaReturned) :
         metaReturned[k].summary = SummaryByRule(result.bugs, result.rawSummary)

\* the summary of two low bugs and a critical one with the narrative 'Looks fine.'
C19_ExampleSummary ==
  <<"F", "o", "u", "n", "d", " ", "3", " ", "b", "u", "g", "(", "s", ")",
    " ", "a", "f", "t", "e", "r", " ", "m", "a", "j", "o", "r", "i", "t",
    "y", " ", "v", "o", "t", "i", "n", "g", ":", " ", "1", " ", "c", "r",
    "i", "t", "i", "c", "a", "l", ",", " ", "2", " ", "l", "o", "w", " ",
    "s", "e", "v", "e", "r", "i", "t", "y", ".", " ", "L", "o", "o", "k",
    "s", " ", "f", "i", "n", "e", ".">>

C19_Witness ==
  /\ result # NotCalled
  /\ Len(result.bugs) = 3
  /\ result.bugs[1].severity = "low"
  /\ result.bugs[2].severity = "critical"
  /\ result.bugs[3].severity = "low"
  /\ firstSummary = N_text
  /\ result.summary = C19_ExampleSummary

\* the number of places of the string at which the pattern occurs
Occurrences(str, pattern) ==
  Cardinality({i \in 1..(Len(str) - Len(pattern) + 1) :
                 SubSeq(str, i, i + Len(pattern) - 1) = pattern})

\* C20: two calls of buildAnalysisMeta in succession, with the bug list and
\* the carried narrative of the same result, return the same summary and the
\* same risk level, and the voting prefix occurs once in that summary.
C20_MetaStableAcrossCalls ==
  (Len(metaReturned) = 2) =>
    /\ metaReturned[1] = metaReturned[2]
    /\ result.summary = metaReturned[2].summary
    /\ result.riskLevel = metaReturned[2].riskLevel
    /\ (result.bugs # <<>>) =>
         /\ Occurrences(metaReturned[1].summary, AfterVotingText) = 1
         /\ Occurrences(metaReturned[2].summary, AfterVotingText) = 1
         /\ Occurrences(metaReturned[2].summary, FoundText) = 1

\* two calls on a result with bugs and a narrative
C20_Witness ==
  /\ Len(metaReturned) = 2
  /\ Len(result.bugs) = 2
  /\ firstSummary = N_padded
  /\ Occurrences(result.summary, AfterVotingText) = 1
  /\ Len(result.summary) > Len(firstSummary) + Len(AfterVotingText)

----------------------------------------------------------------------------
(* Properties of the clusters and the alias table *)

\* C24: every BugReport created by the aggregator, and so every bug in the
\* output, has no endLine whenever it has no startLine.
C24_NoEndLineWithoutStartLine ==
  /\ \A i \in 1..Len(bugVotes) :
       ~HasLine(bugVotes[i].bug) => bugVotes[i].bug.endLine = NoLine
  /\ \A i \in 1..Len(votedBugs) :
       ~HasLine(votedBugs[i]) => votedBugs[i].endLine = NoLine

SeverityRank(severity) ==
  CASE severity = "critical" -> 4
    [] severity = "high" -> 3
    [] severity = "medium" -> 2
    [] severity = "low" -> 1

\* C25: the list returned by the Vote Aggregator is ranked by severity: no
\* bug of lower severity precedes a bug of higher severity in the output.
C25_OutputRankedBySeverity ==
  pc = "done" =>
    \A i, j \in 1..Len(votedBugs) :
      i < j => SeverityRank(votedBugs[i].severity) >= SeverityRank(votedBugs[j].severity)

\* the candidate keys of an iterated report
LoggedKeys(e) == createBugSimilarityKeys(NewBug(e.data, e.passIndex, 0))

KeySet(bug) == Range(createBugSimilarityKeys(bug))

\* C27: the output of applyMajorityVoting is deduplicated at key level: no
\* two emitted bugs share a candidate key, because every candidate key of a
\* cluster's representative is aliased to that cluster.
C27_OutputDeduplicatedAtKeyLevel ==
  /\ \A i \in 1..Len(bugVotes) :
       \A key \in KeySet(bugVotes[i].bug) :
         key \in DOMAIN keyAlias /\ keyAlias[key] = bugVotes[i].key
  /\ \A i, j \in 1..Len(bugVotes) :
       i # j => KeySet(bugVotes[i].bug) \cap KeySet(bugVotes[j].bug) = {}
  /\ \A i, j \in 1..Len(votedBugs) :
       i # j => KeySet(votedBugs[i]) \cap KeySet(votedBugs[j]) = {}

\* two bugs were emitted and a report of the call shares a candidate key
\* with each of them
C27_Witness ==
  /\ pc = "done"
  /\ Len(votedBugs) = 2
  /\ \E e \in voteLog :
       /\ Range(LoggedKeys(e)) \cap KeySet(votedBugs[1]) # {}
       /\ Range(LoggedKeys(e)) \cap KeySet(votedBugs[2]) # {}

\* every alias points to the canonical key of a cluster and every canonical
\* key points to itself
AliasesWellFormed ==
  /\ pc # "threw"
  /\ \A key \in DOMAIN keyAlias : HasEntry(bugVotes, keyAlias[key])
  /\ \A i \in 1..Len(bugVotes) :
       /\ bugVotes[i].key \in DOMAIN keyAlias
       /\ keyAlias[bugVotes[i].key] = bugVotes[i].key
  /\ \A i, j \in 1..Len(bugVotes) : bugVotes[i].key = bugVotes[j].key => i = j

\* a key of the table stays in the table with the same target
AliasesKept ==
  \A key \in DOMAIN keyAlias :
    key \in DOMAIN keyAlias' /\ keyAlias'[key] = keyAlias[key]

\* C28: at every point of an aggregation call, every key in the alias table
\* maps to the canonical key of an existing cluster (the lookup of a found
\* cluster never fails), every cluster's canonical key maps to itself, and
\* once a key is in the table its target never changes.
C28_AliasTableStable == []AliasesWellFormed /\ [][AliasesKept]_vars

\* a report joined the cluster of its first candidate key while its second
\* one was aliased to another cluster, and still is
C28_Witness ==
  /\ Len(bugVotes) = 2
  /\ \E e \in voteLog :
       /\ Len(LoggedKeys(e)) = 2
       /\ keyAlias[LoggedKeys(e)[1]] = e.key
       /\ keyAlias[LoggedKeys(e)[2]] # e.key

\* the vote count of a cluster matches its list of voting passes
VotesWellFormed ==
  \A i \in 1..Len(bugVotes) :
    LET entry == bugVotes[i]
    IN  /\ entry.voteCount = Len(entry.passIndices)
        /\ \A a, b \in 1..Len(entry.passIndices) :
             entry.passIndices[a] = entry.passIndices[b] => a = b
        /\ Range(entry.passIndices) \subseteq Range(successfulResults)
        /\ \A index \in Range(entry.passIndices) : ~passError[index]
        /\ 1 <= entry.voteCount
        /\ entry.voteCount <= Len(successfulResults)

\* the clusters whose vote count the step changes, a new cluster included
CountChanged ==
  {i \in 1..Len(bugVotes') :
     i > Len(bugVotes) \/ bugVotes'[i].voteCount # bugVotes[i].voteCount}

\* a step changes the vote count of at most one cluster, by one
OneCountPerStep ==
  /\ Len(bugVotes') >= Len(bugVotes)
  /\ Cardinality(CountChanged) <= 1
  /\ \A i \in CountChanged :
       bugVotes'[i].voteCount = (IF i > Len(bugVotes) THEN 1 ELSE bugVotes[i].voteCount + 1)

\* C29: at every point of an aggregation call and for every cluster, the
\* vote count equals the number of entries of its pass-index list, the list
\* has no duplicates and holds only indices of successful passes, and
\* 1 <= vote count <= number of successful passes; each processed report
\* changes the vote count of at most one cluster.
C29_VoteCountMatchesPasses == []VotesWellFormed /\ [][OneCountPerStep]_vars

\* two clusters exist, one with the votes of both passes and one with the
\* vote of one pass that reported it twice
C29_Witness ==
  /\ Len(bugVotes) = 2
  /\ \E i, j \in 1..2 :
       /\ bugVotes[i].voteCount = 2 /\ bugVotes[j].voteCount = 1
       /\ Cardinality({e \in voteLog : e.key = bugVotes[j].key}) >= 2
       /\ \A e1, e2 \in voteLog :
            (e1.key = bugVotes[j].key /\ e2.key = bugVotes[j].key)
            => e1.passIndex = e2.passIndex

----------------------------------------------------------------------------
(* Properties of analyzeDiff over unchecked pass outputs *)

\* C23: for every combination of pass outcomes, any subset of the passes
\* failing, analyzeDiff completes with a result and never throws; when every
\* pass fails the result has an empty bug list and risk level "low".
C23_AnalyzeDiffNeverThrows ==
  /\ apc # "threw"
  /\ (apc = "returned" /\ \A i \in PassIndices : passResults[i].error) =>
       (result.bugs = <<>> /\ result.riskLevel = "low")

----------------------------------------------------------------------------
(* Properties of the diff variants *)

\* the per-file segments of a diff: non-empty runs of lines that give the
\* diff back when put together, each run after the first starting with a
\* "diff --git" line and no run holding such a line after its first line
IsSegmentation(segments, lines) ==
  /\ JoinLines(segments) = lines
  /\ \A k \in 1..Len(segments) :
       /\ Len(segments[k]) >= 1
       /\ k > 1 => StartsWith(segments[k][1], DiffGit)
       /\ \A j \in 2..Len(segments[k]) : ~StartsWith(segments[k][j], DiffGit)

\* the orders in which n segments can be put
Orders(n) == {p \in [1..n -> 1..n] : \A a, b \in 1..n : p[a] = p[b] => a = b}

\* C22: createRandomizedDiffVariants returns exactly numVariants diffs; each
\* variant is the per-file segments of the input diff put together in some
\* order, each segment exactly once and unaltered; when the diff has at most
\* one segment every variant equals the input diff.
C22_VariantsPermuteSegments ==
  variants # NotCalled =>
    LET segments == splitDiffIntoFileHunks(diff)
    IN  /\ IsSegmentation(segments, diff)
        /\ Len(variants) = numVariants
        /\ \A v \in 1..Len(variants) :
             /\ \E p \in Orders(Len(segments)) :
                  variants[v] = JoinLines([k \in 1..Len(segments) |-> segments[p[k]]])
             /\ Len(segments) <= 1 => variants[v] = diff

\* three variants of a diff of three segments were returned and one of them
\* is not in the order of the input
C22_Witness ==
  /\ variants # NotCalled
  /\ numVariants = 3
  /\ Len(splitDiffIntoFileHunks(diff)) = 3
  /\ \E v \in 1..3 : variants[v] # diff

----------------------------------------------------------------------------
(* Properties of the cross-source merge *)

\* report b matches report x: a candidate key of b is a key of x (candidate
\* or null-sentinel), or b is line-based, x has no line number and their
\* null-sentinel keys are equal
Matches(b, x) ==
  \/ Range(createBugSimilarityKeys(b)) \cap
       (Range(createBugSimilarityKeys(x)) \cup {createNullSentinelKey(x)}) # {}
  \/ /\ HasLine(b) /\ ~HasLine(x)
     /\ createNullSentinelKey(b) = createNullSentinelKey(x)

RECURSIVE AppendUnmatched(_, _, _)
\* accepted, followed by the reports of B from position j on that match
\* nothing accepted before them
AppendUnmatched(accepted, B, j) ==
  IF j > Len(B) THEN accepted
  ELSE IF \E i \in 1..Len(accepted) : Matches(B[j], accepted[i])
       THEN AppendUnmatched(accepted, B, j + 1)
       ELSE AppendUnmatched(Append(accepted, B[j]), B, j + 1)

\* C21: the merge of A and B returns A unchanged and in order, followed by
\* exactly the reports of B, in order, that match neither a report of A nor
\* an earlier appended report of B; a report of B that shares a candidate
\* key with a report of A is not appended, so the bug appears once.
C21_MergeAppendsUnmatched ==
  /\ mpc \in {"scan", "returned"} =>
       /\ Len(mergeOut) >= Len(mergeA)
       /\ SubSeq(mergeOut, 1, Len(mergeA)) = mergeA
  /\ mpc = "returned" =>
       /\ mergeOut = AppendUnmatched(mergeA, mergeB, 1)
       /\ \A j \in 1..Len(mergeB) :
            (\E i \in 1..Len(mergeA) :
               Range(createBugSimilarityKeys(mergeB[j])) \cap
                 Range(createBugSimilarityKeys(mergeA[i])) # {})
            => \A k \in (Len(mergeA) + 1)..Len(mergeOut) :
                 mergeOut[k] # mergeB[j]

\* merge(A, B) returned with one report of B dropped for a report of A under
\* a shared candidate key and another report of B appended
C21_Witness ==
  /\ mpc = "returned" /\ mergeCall = 1
  /\ Len(mergeA) >= 1 /\ Len(mergeB) = 2
  /\ Len(mergeOut) = Len(mergeA) + 1
  /\ \E j \in 1..2, i \in 1..Len(mergeA) :
       /\ HasLine(mergeB[j])
       /\ Range(createBugSimilarityKeys(mergeB[j])) \cap
            Range(createBugSimilarityKeys(mergeA[i])) # {}

\* C30: the merge is idempotent in its second argument: merging B into what
\* merging B into A returned appends nothing, merge(merge(A, B), B) equals
\* merge(A, B).
C30_MergeIdempotent ==
  /\ (mpc = "returned" /\ mergeCall = 2) =>
       /\ mergeA = firstMerged
       /\ mergeOut = firstMerged
  /\ (mpc = "scan" /\ mergeCall = 2) => mergeOut = firstMerged

\* the second merge returned and the first had appended a line-based report
\* of B and dropped another report of B
C30_Witness ==
  /\ mpc = "returned" /\ mergeCall = 2
  /\ Len(mergeB) = 2
  /\ \E k \in 1..Len(firstMerged) :
       firstMerged[k].id[1] = "B" /\ HasLine(firstMerged[k])
  /\ \E j \in 1..2 : \A k \in 1..Len(firstMerged) : firstMerged[k] # mergeB[j]

====
